---- MODULE Spec2Model ----
(***************************************************************************)
(* A model of agent/src/logwatch.py: the log-watching pipeline `main`      *)
(* (config -> remote tail over ssh -> pattern matching -> incident note)   *)
(* and the functions it is built from.                                     *)
(*                                                                         *)
(* Text is modelled as a sequence of one-character strings, so that        *)
(* splitting, stripping and regular-expression search are computed and not *)
(* assumed.  An optional value (Python's None) is a sequence of length 0   *)
(* or 1.  Time stamps and the incident file's name are not modelled.       *)
(***************************************************************************)
EXTENDS Integers, Sequences, FiniteSets, TLC

VARIABLES
    config,     \* the configuration file on disk: [exists, parses, doc]
    pc,         \* position of main()
    cfg,        \* main's `cfg`
    tail_n,     \* main's `tail_n`
    patterns,   \* main's `patterns`
    proc,       \* the CompletedProcess of the ssh command, <<>> before it ran
    lines,      \* main's `lines`
    ssh_error,  \* main's `ssh_error`: <<>> is None, <<msg>> a message
    hits,       \* main's `hits`
    files,      \* the incident files written so far, in order
    exitCode,   \* the process exit status: <<>> while running, <<code>> after
    sshRuns,    \* number of ssh commands started
    matchRuns,  \* number of calls of find_matches
    fpc,        \* position of a single function call: "call" or "done"
    args,       \* the arguments of that call
    ret         \* its result

vars == <<config, pc, cfg, tail_n, patterns, proc, lines, ssh_error, hits,
          files, exitCode, sshRuns, matchRuns, fpc, args, ret>>

mainVars == <<config, pc, cfg, tail_n, patterns, proc, lines, ssh_error, hits,
              files, exitCode, sshRuns, matchRuns>>

(***************************************************************************)
(* Bounds of the model.                                                    *)
(***************************************************************************)
MaxRemoteLines == 4     \* lines the remote tail prints in a run of main
MaxPatterns == 3        \* patterns in the configuration of a run of main
MaxCallLines == 2       \* lines given to a single call of find_matches
MaxCallPatterns == 2    \* patterns given to a single call of find_matches
MaxFileLen == 5         \* characters in the local log file
MaxTail == 4            \* largest tail length asked of tail_last_lines
MaxErrLen == 3          \* characters on the ssh command's stderr
MaxOutLen == 3          \* characters on the ssh command's stdout

SeqsUpTo(S, n) == UNION {[1..k -> S] : k \in 0..n}

Min(a, b) == IF a < b THEN a ELSE b

Max(a, b) == IF a > b THEN a ELSE b

NL == "\n"

(***************************************************************************)
(* str methods.                                                            *)
(***************************************************************************)
Whitespace == {" ", NL}

RECURSIVE LStrip(_)
LStrip(s) ==
    IF s # <<>> /\ Head(s) \in Whitespace THEN LStrip(Tail(s)) ELSE s

RECURSIVE RStrip(_, _)
\* s.rstrip(chars)
RStrip(s, chars) ==
    IF s # <<>> /\ s[Len(s)] \in chars
    THEN RStrip(SubSeq(s, 1, Len(s) - 1), chars)
    ELSE s

\* s.strip()
Strip(s) == RStrip(LStrip(s), Whitespace)

RECURSIVE SplitFrom(_, _, _, _)
\* The lines of s from position i on, `cur` being the line read so far;
\* keepends tells whether a line keeps its terminator.
SplitFrom(s, i, cur, keepends) ==
    IF i > Len(s)
    THEN IF cur = <<>> THEN <<>> ELSE <<cur>>
    ELSE IF s[i] = NL
         THEN <<IF keepends THEN Append(cur, NL) ELSE cur>>
              \o SplitFrom(s, i + 1, <<>>, keepends)
         ELSE SplitFrom(s, i + 1, Append(cur, s[i]), keepends)

\* f.readlines(): every line with its terminator
readlines(content) == SplitFrom(content, 1, <<>>, TRUE)

\* s.splitlines(): every line without its terminator
splitlines(s) == SplitFrom(s, 1, <<>>, FALSE)

\* seq[start:] for a Python list
SliceFrom(seq, start) ==
    LET n == Len(seq)
        from == IF start < 0 THEN Max(n + start, 0) ELSE Min(start, n)
    IN  SubSeq(seq, from + 1, n)

\* seq[:stop] for a Python list and stop >= 0
SliceTo(seq, stop) == SubSeq(seq, 1, Min(stop, Len(seq)))

(***************************************************************************)
(* re.search.  A regular expression is a sequence of atoms: a literal      *)
(* character, "." (any character but a newline) or "(", which opens a      *)
(* group that nothing closes, so that compiling the expression raises      *)
(* re.error.                                                               *)
(***************************************************************************)
re_compiles(regex) == \A i \in 1..Len(regex) : regex[i] # "("

AtomMatches(atom, c) == IF atom = "." THEN c # NL ELSE atom = c

MatchesAt(regex, s, k) ==
    /\ k + Len(regex) <= Len(s)
    /\ \A i \in 1..Len(regex) : AtomMatches(regex[i], s[k + i])

\* re.search(regex, s) for a regex that compiles: a match at any offset
re_search(regex, s) == \E k \in 0..Len(s) : MatchesAt(regex, s, k)

(***************************************************************************)
(* find_matches.  The result is [raised, hits]: raised tells that          *)
(* re.search raised re.error and the call returned nothing.                *)
(***************************************************************************)
RECURSIVE find_loop_shortcut(_, _, _, _, _)
\* find_matches with a `break` after the first pattern that matches a line
find_loop_shortcut(ls, ps, i, j, acc) ==
    IF i > Len(ls) THEN [raised |-> FALSE, hits |-> acc]
    ELSE IF j > Len(ps) THEN find_loop_shortcut(ls, ps, i + 1, 1, acc)
    ELSE IF ~re_compiles(ps[j].match) THEN [raised |-> TRUE, hits |-> <<>>]
    ELSE IF re_search(ps[j].match, ls[i])
         THEN find_loop_shortcut(ls, ps, i + 1, 1,
                                 Append(acc, <<ps[j], RStrip(ls[i], {NL})>>))
         ELSE find_loop_shortcut(ls, ps, i, j + 1, acc)

RECURSIVE find_loop(_, _, _, _, _)
\* The two nested loops, at line i and pattern j, with `acc` the hits so far
find_loop(ls, ps, i, j, acc) ==
    IF i > Len(ls) THEN [raised |-> FALSE, hits |-> acc]
    ELSE IF j > Len(ps) THEN find_loop(ls, ps, i + 1, 1, acc)
    ELSE IF ~re_compiles(ps[j].match) THEN [raised |-> TRUE, hits |-> <<>>]
    ELSE IF re_search(ps[j].match, ls[i])
         THEN find_loop(ls, ps, i, j + 1,
                        Append(acc, <<ps[j], RStrip(ls[i], {NL})>>))
         ELSE find_loop(ls, ps, i, j + 1, acc)

find_matches(ls, ps) == find_loop(ls, ps, 1, 1, <<>>)

(***************************************************************************)
(* tail_last_lines.  A file is [exists, content].                          *)
(***************************************************************************)
\* the slice lines[:n] in place of lines[-n:]
tail_last_lines_head(file, n) ==
    IF file.exists THEN SliceTo(readlines(file.content), Max(n, 0)) ELSE <<>>

tail_last_lines(file, n) ==
    IF file.exists THEN SliceFrom(readlines(file.content), 0 - n) ELSE <<>>

(***************************************************************************)
(* tail_remote_lines.  `result` is the CompletedProcess of the ssh         *)
(* command: [returncode, stdout, stderr].  The value is <<lines, error>>.  *)
(***************************************************************************)
ExitedWith(code) == <<"SSH exited with code ", ToString(code)>>

\* a or b, for strings
StrOr(a, b) == IF a # <<>> THEN a ELSE b

\* the diagnostic text passed on as it is: no strip(), no fallback
tail_remote_lines_raw(result) ==
    IF result.returncode # 0
    THEN <<<<>>, <<result.stderr>>>>
    ELSE <<splitlines(result.stdout), <<>>>>

tail_remote_lines(result) ==
    IF result.returncode # 0
    THEN <<<<>>, <<StrOr(Strip(result.stderr), ExitedWith(result.returncode))>>>>
    ELSE <<splitlines(result.stdout), <<>>>>

(***************************************************************************)
(* write_incident.  The note is kept as its parts: the title of the        *)
(* heading, the log path, the "Detected signals" bullets (or the "(none)"  *)
(* placeholder) and the lines of the fenced context block.                 *)
(***************************************************************************)
write_incident(title, log_path, context, hs) ==
    [title   |-> title,
     log     |-> log_path,
     signals |-> [none    |-> hs = <<>>,
                  bullets |-> [h \in DOMAIN hs |-> <<hs[h][1].name, hs[h][2]>>]],
     context |-> [l \in DOMAIN context |-> RStrip(context[l], {NL})]]

(***************************************************************************)
(* main: the values it reads.                                              *)
(***************************************************************************)
DefaultTailLines == 200

MaxHits == 10

\* A value of the configuration; "" stands for a missing key, None or an
\* empty string, which `not x` and all([...]) treat alike.
Falsy(v) == v = ""

NoRemote == [present |-> FALSE, user |-> "", host |-> "", log_file |-> ""]

\* cfg.get("remote"): missing or empty (present = FALSE), or a mapping
Remotes ==
    {NoRemote} \cup [present : {TRUE}, user : {"", "ops"}, host : {"", "web1"},
                     log_file : {"", "/var/log/app.log"}]

\* cfg.get("tail_lines"): missing, or given as a word that is no number
TailSettings ==
    {[given |-> FALSE, numeric |-> TRUE, value |-> 0],
     [given |-> TRUE, numeric |-> FALSE, value |-> 0]}

ConfigPatternSet == [name : {"A", "B"}, match : {<<"a">>, <<"b">>, <<"(">>}]

EmptyDoc ==
    [remote |-> NoRemote, log_file |-> "",
     tail_lines |-> [given |-> FALSE, numeric |-> TRUE, value |-> 0],
     patterns |-> <<>>]

Docs ==
    [remote : Remotes, log_file : {"", "/var/log/local.log"},
     tail_lines : TailSettings,
     patterns : SeqsUpTo(ConfigPatternSet, MaxPatterns)]

Configs ==
    {[exists |-> FALSE, parses |-> FALSE, doc |-> EmptyDoc],
     [exists |-> TRUE, parses |-> FALSE, doc |-> EmptyDoc]}
    \cup [exists : {TRUE}, parses : {TRUE}, doc : Docs]

\* The local log file of the machine main runs on
LocalLogFile == [exists |-> TRUE, content |-> <<"b", NL, "a", NL>>]

RemoteLineSet == {<<"a">>, <<"b">>}

RECURSIVE Unlines(_)
\* What `tail` prints for a sequence of lines: each line and its newline
Unlines(ls) ==
    IF ls = <<>> THEN <<>> ELSE Head(ls) \o <<NL>> \o Unlines(Tail(ls))

\* What subprocess.run can return for the ssh command
SshResults ==
    {[returncode |-> 255, stdout |-> <<>>, stderr |-> e] :
        e \in {<<>>, <<"e", NL>>}}
    \cup {[returncode |-> 0, stdout |-> Unlines(ls), stderr |-> <<>>] :
            ls \in SeqsUpTo(RemoteLineSet, MaxRemoteLines)}

\* `if x:` for an optional string
Truthy(opt) == opt # <<>> /\ opt[1] # <<>>

\* the name of the last hit's pattern in place of the first's
TitleOfLast(hs) == hs[Len(hs)][1].name

\* hits[0][0].name
Title(hs) == hs[1][1].name

\* the slice hits[-10:] in place of hits[:10]
CappedHitsLast(hs) == SliceFrom(hs, 0 - MaxHits)

\* hits[:10]
CappedHits(hs) == SliceTo(hs, MaxHits)

(***************************************************************************)
(* main: its steps.                                                        *)
(***************************************************************************)
Goto(label) == pc' = label /\ UNCHANGED exitCode

\* `return code` from main, which SystemExit turns into the exit status
Return(code) == pc' = "returned" /\ exitCode' = <<code>>

\* sys.exit(code) inside load_config
SysExit(code) == pc' = "exited" /\ exitCode' = <<code>>

\* An exception nobody catches: traceback, exit status 1
Raise == pc' = "raised" /\ exitCode' = <<1>>

callVars == <<fpc, args, ret>>

CheckConfig ==
    /\ pc = "start"
    /\ IF ~config.exists THEN Return(2) ELSE Goto("load")
    /\ UNCHANGED <<config, cfg, tail_n, patterns, proc, lines, ssh_error, hits,
                   files, sshRuns, matchRuns, callVars>>

LoadConfig ==
    /\ pc = "load"
    /\ IF ~config.parses
       THEN SysExit(2) /\ UNCHANGED cfg
       ELSE cfg' = config.doc /\ Goto("validate")
    /\ UNCHANGED <<config, tail_n, patterns, proc, lines, ssh_error, hits,
                   files, sshRuns, matchRuns, callVars>>

\* the check of user, host and log_file left out
ValidateRemoteSectionOnly ==
    /\ pc = "validate"
    /\ IF ~cfg.remote.present THEN Return(2) ELSE Goto("settings")
    /\ UNCHANGED <<config, cfg, tail_n, patterns, proc, lines, ssh_error, hits,
                   files, sshRuns, matchRuns, callVars>>

ValidateRemote ==
    /\ pc = "validate"
    /\ LET remote == cfg.remote IN
       IF ~remote.present
       THEN Return(2)
       ELSE IF \E v \in {remote.user, remote.host, remote.log_file} : Falsy(v)
            THEN Return(2)
            ELSE Goto("settings")
    /\ UNCHANGED <<config, cfg, tail_n, patterns, proc, lines, ssh_error, hits,
                   files, sshRuns, matchRuns, callVars>>

\* int(cfg.get("tail_lines", 200)) raises ValueError on a word; the patterns
\* are taken as they are written, nothing compiles them here.
ReadSettings ==
    /\ pc = "settings"
    /\ IF cfg.tail_lines.given /\ ~cfg.tail_lines.numeric
       THEN Raise /\ UNCHANGED <<tail_n, patterns>>
       ELSE /\ tail_n' = IF cfg.tail_lines.given THEN cfg.tail_lines.value
                         ELSE DefaultTailLines
            /\ patterns' = cfg.patterns
            /\ Goto("fetch")
    /\ UNCHANGED <<config, cfg, proc, lines, ssh_error, hits, files, sshRuns,
                   matchRuns, callVars>>

\* the ssh command line built by tail_remote_lines
SshCommand == <<cfg.remote.user, cfg.remote.host,
                [n |-> tail_n, path |-> cfg.remote.log_file]>>

\* the `if not lines` check left out
FetchKeepsEmpty ==
    /\ pc = "fetch"
    /\ \E result \in SshResults :
         LET r == tail_remote_lines(result) IN
         /\ proc' = <<[cmd |-> SshCommand, result |-> result]>>
         /\ sshRuns' = sshRuns + 1
         /\ lines' = r[1]
         /\ ssh_error' = r[2]
         /\ IF Truthy(r[2]) THEN Return(1) ELSE Goto("match")
    /\ UNCHANGED <<config, cfg, tail_n, patterns, hits, files, matchRuns,
                   callVars>>

Fetch ==
    /\ pc = "fetch"
    /\ \E result \in SshResults :
         LET r == tail_remote_lines(result) IN
         /\ proc' = <<[cmd |-> SshCommand, result |-> result]>>
         /\ sshRuns' = sshRuns + 1
         /\ lines' = r[1]
         /\ ssh_error' = r[2]
         /\ IF Truthy(r[2]) THEN Return(1)
            ELSE IF r[1] = <<>> THEN Return(1)
            ELSE Goto("match")
    /\ UNCHANGED <<config, cfg, tail_n, patterns, hits, files, matchRuns,
                   callVars>>

\* a note with the "(none)" placeholder written when nothing matched
MatchWritesEmptyNote ==
    /\ pc = "match"
    /\ matchRuns' = matchRuns + 1
    /\ LET r == find_matches(lines, patterns) IN
       IF r.raised
       THEN Raise /\ UNCHANGED <<hits, files>>
       ELSE /\ hits' = r.hits
            /\ IF r.hits = <<>>
               THEN /\ files' = Append(files,
                         write_incident("none", cfg.remote.log_file, lines, <<>>))
                    /\ Return(0)
               ELSE Goto("write") /\ UNCHANGED files
    /\ UNCHANGED <<config, cfg, tail_n, patterns, proc, lines, ssh_error,
                   sshRuns, callVars>>

Match ==
    /\ pc = "match"
    /\ matchRuns' = matchRuns + 1
    /\ LET r == find_matches(lines, patterns) IN
       IF r.raised
       THEN Raise /\ UNCHANGED hits
       ELSE /\ hits' = r.hits
            /\ IF r.hits = <<>> THEN Return(0) ELSE Goto("write")
    /\ UNCHANGED <<config, cfg, tail_n, patterns, proc, lines, ssh_error,
                   files, sshRuns, callVars>>

WriteIncident ==
    /\ pc = "write"
    /\ files' = Append(files,
          write_incident(Title(hits), cfg.remote.log_file, lines, CappedHits(hits)))
    /\ Return(0)
    /\ UNCHANGED <<config, cfg, tail_n, patterns, proc, lines, ssh_error, hits,
                   sshRuns, matchRuns, callVars>>

\* The values main's variables hold before main assigns them
Unassigned ==
    /\ cfg = EmptyDoc
    /\ tail_n = 0
    /\ patterns = <<>>
    /\ proc = <<>>
    /\ lines = <<>>
    /\ ssh_error = <<>>
    /\ hits = <<>>
    /\ files = <<>>
    /\ exitCode = <<>>
    /\ sshRuns = 0
    /\ matchRuns = 0

NoCall == fpc = "none" /\ args = <<>> /\ ret = <<>>

Init ==
    /\ config \in Configs
    /\ pc = "start"
    /\ Unassigned
    /\ NoCall

Next ==
    \/ CheckConfig
    \/ LoadConfig
    \/ ValidateRemote
    \/ ReadSettings
    \/ Fetch
    \/ Match
    \/ WriteIncident

Spec == Init /\ [][Next]_vars

(***************************************************************************)
(* The functions on their own: one call each, on arguments drawn from      *)
(* small sets.                                                             *)
(***************************************************************************)
NoMain ==
    /\ config = [exists |-> FALSE, parses |-> FALSE, doc |-> EmptyDoc]
    /\ pc = "none"
    /\ Unassigned

CallLineSet == {<<>>, <<"a">>, <<"b", "a">>, <<"a", "b", NL>>, <<NL>>}

CallPatternSet ==
    [name : {"A", "B"}, match : {<<"a">>, <<"b", ".">>, <<>>, <<"(">>}]

InitMatch ==
    /\ NoMain
    /\ fpc = "call"
    /\ args \in [lines : SeqsUpTo(CallLineSet, MaxCallLines),
                 patterns : SeqsUpTo(CallPatternSet, MaxCallPatterns)]
    /\ ret = <<>>

CallFindMatches ==
    /\ fpc = "call"
    /\ ret' = find_matches(args.lines, args.patterns)
    /\ fpc' = "done"
    /\ UNCHANGED <<args, mainVars>>

SpecMatch == InitMatch /\ [][CallFindMatches]_vars

FileChars == {"a", NL}

InitTail ==
    /\ NoMain
    /\ fpc = "call"
    /\ args \in [file : {[exists |-> FALSE, content |-> <<>>]}
                        \cup [exists : {TRUE},
                              content : SeqsUpTo(FileChars, MaxFileLen)],
                 n : (0 - 1)..MaxTail]
    /\ ret = <<>>

CallTailLastLines ==
    /\ fpc = "call"
    /\ ret' = tail_last_lines(args.file, args.n)
    /\ fpc' = "done"
    /\ UNCHANGED <<args, mainVars>>

SpecTail == InitTail /\ [][CallTailLastLines]_vars

ErrChars == {"e", " ", NL}

InitRemote ==
    /\ NoMain
    /\ fpc = "call"
    /\ args \in [returncode : {0, 1, 255},
                 stdout : SeqsUpTo(FileChars, MaxOutLen),
                 stderr : SeqsUpTo(ErrChars, MaxErrLen)]
    /\ ret = <<>>

CallTailRemoteLines ==
    /\ fpc = "call"
    /\ ret' = tail_remote_lines(args)
    /\ fpc' = "done"
    /\ UNCHANGED <<args, mainVars>>

SpecRemote == InitRemote /\ [][CallTailRemoteLines]_vars

(***************************************************************************)
(* Properties of main.  They are stated over what the run was given (the   *)
(* configuration file, the result of the ssh command) and what it left     *)
(* behind (exit status, files).                                            *)
(***************************************************************************)
Returned == pc \in {"returned", "exited"}

Ended == pc \in {"returned", "exited", "raised"}

\* The configuration file is missing or unparsable, names no remote target,
\* or names one without user, host or log_file
ConfigError ==
    \/ ~config.exists
    \/ ~config.parses
    \/ ~config.doc.remote.present
    \/ config.doc.remote.user = ""
    \/ config.doc.remote.host = ""
    \/ config.doc.remote.log_file = ""

FetchFailed == proc # <<>> /\ proc[1].result.returncode # 0

NoLines ==
    proc # <<>> /\ proc[1].result.returncode = 0 /\ proc[1].result.stdout = <<>>

\* The (line, pattern) positions where the pattern is found in the line
MatchPairs(ls, ps) ==
    {q \in (1..Len(ls)) \X (1..Len(ps)) : re_search(ps[q[2]].match, ls[q[1]])}

\* C1: a run of main that returns has exactly one exit code, and it is the
\* code of the outcome reached: 2 for a configuration error, 1 for a failed
\* remote fetch, 1 for no lines, 0 for no match and 0 for a written incident;
\* a run that has not ended has no exit code.
ExitCodeFixedByOutcome ==
    /\ ~Ended => exitCode = <<>>
    /\ Returned =>
         /\ Len(exitCode) = 1
         /\ IF ConfigError THEN exitCode[1] = 2 /\ proc = <<>>
            ELSE IF FetchFailed THEN exitCode[1] = 1
            ELSE IF NoLines THEN exitCode[1] = 1
            ELSE /\ exitCode[1] = 0
                 /\ proc # <<>>
                 /\ lines # <<>>
                 /\ IF MatchPairs(lines, config.doc.patterns) = {}
                    THEN files = <<>>
                    ELSE Len(files) = 1

NoLinesExitsOne == pc = "returned" /\ NoLines /\ exitCode = <<1>>

\* C2: at most one incident file is written; a run that ended with hits has
\* written exactly one, and a run without hits (configuration error, failed
\* fetch, no lines, no match) has written none.
IncidentWrittenOnlyOnHits ==
    /\ Len(files) <= 1
    /\ files # <<>> => hits # <<>> /\ pc = "returned"
    /\ Ended /\ hits # <<>> => Len(files) = 1
    /\ Ended /\ (ConfigError \/ FetchFailed \/ NoLines) => files = <<>>
    /\ Ended /\ proc # <<>> /\ MatchPairs(lines, patterns) = {} => files = <<>>

IncidentWritten == pc = "returned" /\ Len(files) = 1 /\ hits # <<>>

\* C3: the stages run in order and a failing stage stops the run: no ssh
\* command is started under a configuration error, find_matches is not
\* called after a failed fetch, matching never precedes the fetch and
\* writing never precedes matching.
FailingStageStopsRun ==
    /\ ConfigError => sshRuns = 0 /\ matchRuns = 0 /\ files = <<>>
    /\ FetchFailed => matchRuns = 0 /\ files = <<>>
    /\ sshRuns = Len(proc)
    /\ matchRuns <= sshRuns
    /\ Len(files) <= matchRuns

FetchFailedNoMatching ==
    pc = "returned" /\ FetchFailed /\ sshRuns = 1 /\ matchRuns = 0

\* C4: with a local log path and no remote target in the configuration, and
\* a line of the local log matching a configured pattern, the run exits 0
\* having written one incident file, whose context is the tail of the local
\* log and whose signals are the hits in it.
LocalLogRunsPipeline ==
    (/\ Ended
     /\ config.parses
     /\ config.doc.log_file # ""
     /\ ~config.doc.remote.present
     /\ \A j \in DOMAIN config.doc.patterns :
            re_compiles(config.doc.patterns[j].match)
     /\ MatchPairs(readlines(LocalLogFile.content), config.doc.patterns) # {})
    => /\ exitCode = <<0>>
       /\ Len(files) = 1
       /\ files[1].signals.bullets # <<>>
       /\ Unlines(files[1].context) = LocalLogFile.content

\* C5: a pattern that is no valid regular expression is a configuration
\* error: in a run whose configuration has no other fault, no ssh command is
\* started, find_matches is not called, nothing is written and the run ends
\* with exit code 2.
InvalidRegexIsConfigError ==
    (/\ ~ConfigError
     /\ config.doc.tail_lines.numeric
     /\ \E j \in DOMAIN config.doc.patterns :
            ~re_compiles(config.doc.patterns[j].match))
    => /\ sshRuns = 0
       /\ matchRuns = 0
       /\ files = <<>>
       /\ Ended => exitCode = <<2>>

\* C7: the written note lists the first min(H, 10) of the H hits, in the
\* order of matching, and its context holds every fetched line in order.
NoteListsFirstTenHits ==
    files # <<>> =>
        LET note == files[1] IN
        /\ ~note.signals.none
        /\ Len(note.signals.bullets) = Min(Len(hits), 10)
        /\ \A k \in DOMAIN note.signals.bullets :
              note.signals.bullets[k] = <<hits[k][1].name, hits[k][2]>>
        /\ note.context = lines
        /\ Unlines(note.context) = proc[1].result.stdout

MoreThanTenHitsWritten ==
    files # <<>> /\ Len(hits) > 10 /\ hits[1] # hits[Len(hits)]

\* C8: the title of the incident is the name of the earliest-declared
\* pattern among those found in the earliest fetched line in which any
\* pattern is found.
TitleIsFirstHitPattern ==
    files # <<>> =>
        \E q \in MatchPairs(lines, patterns) :
            /\ \A r \in MatchPairs(lines, patterns) :
                  q[1] < r[1] \/ (q[1] = r[1] /\ q[2] <= r[2])
            /\ files[1].title = patterns[q[2]].name

TitleFromLaterPattern ==
    /\ files # <<>>
    /\ files[1].title # patterns[1].name
    /\ \E q \in MatchPairs(lines, patterns) : q[2] = 1

(***************************************************************************)
(* Properties of the functions.                                            *)
(***************************************************************************)
\* Position of the pair q among the pairs of P, by line and then by pattern
Rank(q, P) ==
    Cardinality({r \in P : r[1] < q[1] \/ (r[1] = q[1] /\ r[2] <= q[2])})

\* C6: find_matches returns one hit for every (line, pattern) position whose
\* pattern is found anywhere in the line, ordered by line and then by
\* pattern, identical pairs repeated; no lines or no patterns give no hits.
FindMatchesEveryPairInOrder ==
    fpc = "done" =>
        LET P == MatchPairs(args.lines, args.patterns) IN
        /\ (args.lines = <<>> \/ args.patterns = <<>>) =>
               ret = [raised |-> FALSE, hits |-> <<>>]
        /\ ~ret.raised =>
               /\ Len(ret.hits) = Cardinality(P)
               /\ \A q \in P :
                     ret.hits[Rank(q, P)] =
                         <<args.patterns[q[2]], RStrip(args.lines[q[1]], {NL})>>

RepeatedPairsAllReported ==
    /\ fpc = "done"
    /\ ~ret.raised
    /\ Len(args.lines) = 2 /\ args.lines[1] = args.lines[2]
    /\ Len(args.patterns) = 2 /\ args.patterns[1] = args.patterns[2]
    /\ Len(ret.hits) = 4
    /\ ~MatchesAt(args.patterns[1].match, args.lines[1], 0)

RECURSIVE Flatten(_)
Flatten(ss) == IF ss = <<>> THEN <<>> ELSE Head(ss) \o Flatten(Tail(ss))

\* Number of lines of a text: its newlines, and one more for an unterminated
\* last line
LineCount(content) ==
    Cardinality({i \in DOMAIN content : content[i] = NL})
    + (IF content # <<>> /\ content[Len(content)] # NL THEN 1 ELSE 0)

\* s is one line: not empty, with no newline but possibly its last character
IsLine(s) == s # <<>> /\ \A i \in 1..(Len(s) - 1) : s[i] # NL

\* C9: for a file of K lines and a tail n > 0, tail_last_lines returns
\* min(n, K) lines which, put together, are the end of the file, starting at
\* the beginning of a line; for a path that does not exist it returns no
\* lines.
TailIsLastLinesOfFile ==
    fpc = "done" =>
        /\ ~args.file.exists => ret = <<>>
        /\ args.file.exists /\ args.n > 0 =>
             LET content == args.file.content
                 rest == Len(content) - Len(Flatten(ret))
             IN  /\ Len(ret) = Min(args.n, LineCount(content))
                 /\ \A k \in DOMAIN ret : IsLine(ret[k])
                 /\ \A k \in 1..(Len(ret) - 1) : ret[k][Len(ret[k])] = NL
                 /\ rest >= 0
                 /\ Flatten(ret) = SubSeq(content, rest + 1, Len(content))
                 /\ rest > 0 => content[rest] = NL

TailCutsAndKeepsBlankLine ==
    /\ fpc = "done"
    /\ args.file.exists
    /\ args.n > 1
    /\ args.n < LineCount(args.file.content)
    /\ \E k \in DOMAIN ret : ret[k] = <<NL>>

\* C10: on a nonzero exit status tail_remote_lines returns no lines and a
\* message that is never empty: the stderr text without its leading and
\* trailing whitespace or, when nothing is left of it, "SSH exited with code
\* N"; on exit status zero it returns no error.
RemoteErrorIsTrimmedStderr ==
    fpc = "done" =>
        IF args.returncode = 0
        THEN ret[2] = <<>>
        ELSE /\ ret[1] = <<>>
             /\ Len(ret[2]) = 1
             /\ ret[2][1] # <<>>
             /\ LET msg == ret[2][1]
                    err == args.stderr
                    ink == {i \in DOMAIN err : err[i] \notin Whitespace}
                IN  IF ink = {}
                    THEN msg = ExitedWith(args.returncode)
                    ELSE \E a \in ink, b \in ink :
                            /\ \A i \in ink : a <= i /\ i <= b
                            /\ msg = SubSeq(err, a, b)

BlankStderrFallsBack ==
    /\ fpc = "done"
    /\ args.returncode # 0
    /\ args.stderr # <<>>
    /\ ret[2] = <<ExitedWith(args.returncode)>>

====
